---- MODULE Spec2Model ----
(***************************************************************************)
(* watch-changes.js: the unsaved-changes watcher.  A watcher object tracks *)
(* hasChanges / isException for one region, drives the status note and the *)
(* saved-message elements, and installs or clears window.onbeforeunload.   *)
(* Every event handler and every prototype method is one atomic action     *)
(* (JavaScript runs a handler to completion); the order of the callbacks   *)
(* and of the writes to window.onbeforeunload inside one handler is kept   *)
(* in the variable trace.                                                  *)
(***************************************************************************)
EXTENDS Integers, Sequences, FiniteSets, TLC

VARIABLES
  defaults,        \* the module-level object _defaults (shared by every watcher)
  sessions,        \* the watcher objects, by name
  onbeforeunload,  \* window.onbeforeunload
  statusNote,      \* the DOM elements selected as $statusNote, by selector
  savedChanges,    \* the DOM elements selected as $savedChanges, by selector
  trace,           \* callbacks fired and onbeforeunload writes of the last step, in order
  threw,           \* the last step ended in a TypeError
  prompt,          \* what the last before-unload handler run returned
  last             \* the last step: operation, receiver, arguments, state before

vars == <<defaults, sessions, onbeforeunload, statusNote, savedChanges,
          trace, threw, prompt, last>>

----------------------------------------------------------------------------
\* The watcher objects the page constructs.
Sessions == {"A", "B"}

----------------------------------------------------------------------------
(* Values *)

Undefined == "undefined"

Keys == {"watchChangesStatus", "watchChangesAlert", "watchChangesStatusElement",
         "watchChangesSavedElement", "watchChangesExceptions", "watchChangesSubmits",
         "watchChangesIgnored", "onUnload", "onSetAlert", "onUnsetAlert"}

\* an options object that sets nothing: {} or an omitted argument
NoOptions == [k \in Keys |-> Undefined]

SourceDefaults ==
  [watchChangesStatus        |-> "There are unsaved changes on this page",
   watchChangesAlert         |-> "You've made changes on this page that are NOT SAVED",
   watchChangesStatusElement |-> ".js-watch-changes-status",
   watchChangesSavedElement  |-> ".js-watch-changes-saved",
   watchChangesExceptions    |-> "[type=submit], [data-submit]",
   watchChangesSubmits       |-> "[type=submit], [data-submit]",
   watchChangesIgnored       |-> "[data-ignore-changes]",
   onUnload                  |-> "noop",
   onSetAlert                |-> "noop",
   onUnsetAlert              |-> "noop"]

\* $.extend(target, src): every defined property of src is written over target's
Extend(target, src) ==
  [k \in Keys |-> IF src[k] # Undefined THEN src[k] ELSE target[k]]

\* A field of the region is the set of its attributes that the selectors test.
Attributes == {"type=submit", "data-submit", "data-ignore-changes"}
Elements == {{}, {"type=submit"}, {"data-submit"}, {"data-ignore-changes"},
             {"data-submit", "data-ignore-changes"}}

\* The attribute alternatives a selector string lists.
SelectorAlternatives(selector) ==
  CASE selector = "[type=submit], [data-submit]" -> {"type=submit", "data-submit"}
    [] selector = "[data-submit]"                -> {"data-submit"}
    [] selector = "[type=submit]"                -> {"type=submit"}
    [] selector = "[data-ignore-changes]"        -> {"data-ignore-changes"}
    [] OTHER                                     -> {}

\* $element.is(selector)
Is(element, selector) == SelectorAlternatives(selector) \cap element # {}

\* window.onbeforeunload: null, or the closure setAlert installs.  The closure
\* reads options.onUnload and options.watchChangesAlert when it runs; options
\* is either the shared _defaults object or an object setAlert built itself.
NoHandler == [by |-> "none", shared |-> FALSE, onUnload |-> Undefined, alert |-> Undefined]
Armed(g) == g # NoHandler


\* A watcher object before its constructor has run.
NotConstructed ==
  [constructed |-> FALSE, hasChanges |-> FALSE, isException |-> FALSE,
   scope |-> 0, options |-> Undefined, statusNote |-> Undefined,
   savedChanges |-> Undefined, bound |-> <<>>]

\* this.options is undefined on a watcher whose constructor returned early.
HasOptions(w, s) == w.ses[s].options # Undefined

\* A TypeError ends the running handler; what it did so far stays done.
Throw(w) == [w EXCEPT !.threw = TRUE, !.tr = Append(@, <<"TypeError", "">>)]

----------------------------------------------------------------------------
(* The prototype methods.  Each maps the world w before the call to the    *)
(* world after it; w.threw carries a raised TypeError out of the callers.  *)

\* Mutant: onSetAlert is fired only when the handler is installed.
setAlert_quietWhenArmed(w, s, override) ==
  IF w.threw THEN w
  ELSE
    LET own     == ~HasOptions(w, s)
        options == IF own THEN Extend(NoOptions, override) ELSE Extend(w.d, override)
        w1      == IF own THEN w ELSE [w EXCEPT !.d = options]
    IN  IF options.onSetAlert = Undefined
          THEN Throw(w1)
          ELSE IF ~Armed(w1.g)
            THEN [w1 EXCEPT
                    !.tr = Append(Append(@, <<"onSetAlert", options.onSetAlert>>),
                                  <<"install", s>>),
                    !.g  = [by       |-> s,
                            shared   |-> ~own,
                            onUnload |-> IF own THEN options.onUnload ELSE Undefined,
                            alert    |-> IF own THEN options.watchChangesAlert
                                                ELSE Undefined]]
            ELSE w1

\* Mutant: the handler is installed without looking at window.onbeforeunload.
setAlert_alwaysInstalls(w, s, override) ==
  IF w.threw THEN w
  ELSE
    LET own     == ~HasOptions(w, s)
        options == IF own THEN Extend(NoOptions, override) ELSE Extend(w.d, override)
        w1      == IF own THEN w ELSE [w EXCEPT !.d = options]
    IN  IF options.onSetAlert = Undefined
          THEN Throw(w1)
          ELSE [w1 EXCEPT
                  !.tr = Append(Append(@, <<"onSetAlert", options.onSetAlert>>),
                                <<"install", s>>),
                  !.g  = [by       |-> s,
                          shared   |-> ~own,
                          onUnload |-> IF own THEN options.onUnload ELSE Undefined,
                          alert    |-> IF own THEN options.watchChangesAlert
                                              ELSE Undefined]]

setAlert(w, s, override) ==
  IF w.threw THEN w
  ELSE
    LET own     == ~HasOptions(w, s)
        options == IF own THEN Extend(NoOptions, override) ELSE Extend(w.d, override)
        w1      == IF own THEN w ELSE [w EXCEPT !.d = options]
    IN  IF options.onSetAlert = Undefined
          THEN Throw(w1)
          ELSE
            LET w2 == [w1 EXCEPT !.tr = Append(@, <<"onSetAlert", options.onSetAlert>>)]
            IN  IF ~Armed(w2.g)
                  THEN [w2 EXCEPT
                          !.g  = [by       |-> s,
                                  shared   |-> ~own,
                                  onUnload |-> IF own THEN options.onUnload ELSE Undefined,
                                  alert    |-> IF own THEN options.watchChangesAlert
                                                      ELSE Undefined],
                          !.tr = Append(@, <<"install", s>>)]
                  ELSE w2

\* Mutant: the handler is cleared before the callback is fired.
unsetAlert_clearsFirst(w, s) ==
  IF w.threw THEN w
  ELSE IF ~HasOptions(w, s) THEN Throw(w)
  ELSE [w EXCEPT !.tr = Append(Append(@, <<"clear", s>>),
                               <<"onUnsetAlert", w.d.onUnsetAlert>>),
                 !.g  = NoHandler]

\* Mutant: a watcher clears only a handler it installed itself.
unsetAlert_ownOnly(w, s) ==
  IF w.threw THEN w
  ELSE IF ~HasOptions(w, s) THEN Throw(w)
  ELSE [w EXCEPT !.tr = Append(Append(@, <<"onUnsetAlert", w.d.onUnsetAlert>>),
                               <<"clear", s>>),
                 !.g  = IF @.by = s THEN NoHandler ELSE @]

unsetAlert(w, s) ==
  IF w.threw THEN w
  ELSE IF ~HasOptions(w, s) THEN Throw(w)
  ELSE [w EXCEPT !.tr = Append(Append(@, <<"onUnsetAlert", w.d.onUnsetAlert>>),
                               <<"clear", s>>),
                 !.g  = NoHandler]

\* Mutant: an exception field clears hasChanges instead of leaving it alone.
checkForException_clears(w, s, element) ==
  IF w.threw THEN w
  ELSE IF ~HasOptions(w, s) THEN Throw(w)
  ELSE IF Len(element) = 0 THEN w
  ELSE
    LET exception == Is(element[1], w.d.watchChangesExceptions)
    IN  [w EXCEPT !.ses[s].isException = exception,
                  !.ses[s].hasChanges  = ~exception]

\* Mutant: isException is only ever raised, so it carries over between events.
checkForException_sticky(w, s, element) ==
  IF w.threw THEN w
  ELSE IF ~HasOptions(w, s) THEN Throw(w)
  ELSE IF Len(element) = 0 THEN w
  ELSE
    LET exception == Is(element[1], w.d.watchChangesExceptions)
    IN  [w EXCEPT !.ses[s].isException = @ \/ exception,
                  !.ses[s].hasChanges  = IF ~exception THEN TRUE ELSE @]

\* element is a jQuery set: <<>> when empty, <<e>> for one field
checkForException(w, s, element) ==
  IF w.threw THEN w
  ELSE IF ~HasOptions(w, s) THEN Throw(w)
  ELSE IF Len(element) = 0 THEN w
  ELSE
    LET exception == Is(element[1], w.d.watchChangesExceptions)
    IN  [w EXCEPT !.ses[s].isException = exception,
                  !.ses[s].hasChanges  = IF ~exception THEN TRUE ELSE @]

\* Mutant: the saved message stays visible while there are changes.
hideSavedChangesMessage_noop(w, s) ==
  IF w.threw THEN w
  ELSE IF w.ses[s].savedChanges = Undefined THEN Throw(w)
  ELSE w

hideSavedChangesMessage(w, s) ==
  IF w.threw THEN w
  ELSE IF w.ses[s].savedChanges = Undefined THEN Throw(w)
  ELSE [w EXCEPT !.sc[w.ses[s].savedChanges].hidden = TRUE]

\* Mutant: the saved message is left as it is.
showSavedChangesMessage_noop(w, s) ==
  IF w.threw THEN w
  ELSE IF w.ses[s].savedChanges = Undefined THEN Throw(w)
  ELSE w

showSavedChangesMessage(w, s) ==
  IF w.threw THEN w
  ELSE IF w.ses[s].savedChanges = Undefined THEN Throw(w)
  ELSE [w EXCEPT !.sc[w.ses[s].savedChanges].hidden = FALSE]

\* Mutant: the alert is set whatever hasChanges is.
updateStatusNote_alwaysSets(w, s, status) ==
  IF w.threw THEN w
  ELSE IF status = "" /\ ~HasOptions(w, s) THEN Throw(w)
  ELSE IF w.ses[s].statusNote = Undefined THEN Throw(w)
  ELSE
    LET text == IF status # "" THEN status ELSE w.d.watchChangesStatus
        note == w.ses[s].statusNote
    IN  IF w.ses[s].hasChanges
          THEN setAlert(
                 hideSavedChangesMessage(
                   [w EXCEPT !.sn[note] = [text |-> text, hasChangesClass |-> TRUE]], s),
                 s, NoOptions)
          ELSE setAlert(
                 showSavedChangesMessage(
                   [w EXCEPT !.sn[note].hasChangesClass = FALSE], s),
                 s, NoOptions)

\* Mutant: the classes are toggled instead of added and removed.
updateStatusNote_toggles(w, s, status) ==
  IF w.threw THEN w
  ELSE IF status = "" /\ ~HasOptions(w, s) THEN Throw(w)
  ELSE IF w.ses[s].statusNote = Undefined THEN Throw(w)
  ELSE
    LET text == IF status # "" THEN status ELSE w.d.watchChangesStatus
        note == w.ses[s].statusNote
        w1   == [w EXCEPT !.sn[note].hasChangesClass = ~@,
                          !.sc[w.ses[s].savedChanges].hidden = ~@]
    IN  IF w.ses[s].hasChanges
          THEN setAlert([w1 EXCEPT !.sn[note].text = text], s, NoOptions)
          ELSE unsetAlert(w1, s)

\* status = "" stands for an omitted (falsy) argument
updateStatusNote(w, s, status) ==
  IF w.threw THEN w
  ELSE IF status = "" /\ ~HasOptions(w, s) THEN Throw(w)
  ELSE IF w.ses[s].statusNote = Undefined THEN Throw(w)
  ELSE
    LET text == IF status # "" THEN status ELSE w.d.watchChangesStatus
        note == w.ses[s].statusNote
    IN  IF w.ses[s].hasChanges
          THEN setAlert(
                 hideSavedChangesMessage(
                   [w EXCEPT !.sn[note] = [text |-> text, hasChangesClass |-> TRUE]], s),
                 s, NoOptions)
          ELSE unsetAlert(
                 showSavedChangesMessage(
                   [w EXCEPT !.sn[note].hasChangesClass = FALSE], s),
                 s)

\* Mutant: the flag is stored and nothing is refreshed.
updateHasChanges_storesOnly(w, s, state) ==
  IF w.threw THEN w
  ELSE [w EXCEPT !.ses[s].hasChanges = state]

updateHasChanges(w, s, state) ==
  IF w.threw THEN w
  ELSE updateStatusNote([w EXCEPT !.ses[s].hasChanges = state], s, "")

\* Mutant: a submit click leaves the alert of a dirty watcher in place.
clickHandler_keepsDirty(w, s) ==
  IF w.ses[s].hasChanges THEN w ELSE unsetAlert(w, s)

\* Mutant: a submit click marks the watcher clean.
clickHandler_resets(w, s) == updateHasChanges(w, s, FALSE)

\* The click handler bound by init.
clickHandler(w, s) == unsetAlert(w, s)

\* Mutant: the exception branch is missing.
keyupHandler_noExceptionBranch(w, s, element) ==
  IF Is(element, w.d.watchChangesIgnored) THEN w
  ELSE
    LET w1 == updateStatusNote(checkForException(w, s, <<element>>), s, "")
    IN  IF w1.threw THEN w1
        ELSE IF ~w1.ses[s].isException /\ w1.ses[s].hasChanges
          THEN setAlert(w1, s, NoOptions)
        ELSE w1

\* Mutant: the ignored test comes after the exception check.
keyupHandler_lateIgnore(w, s, element) ==
  LET w0 == checkForException(w, s, <<element>>)
  IN  IF Is(element, w0.d.watchChangesIgnored) THEN w0
      ELSE
        LET w1 == updateStatusNote(w0, s, "")
        IN  IF w1.threw THEN w1
            ELSE IF ~w1.ses[s].isException /\ w1.ses[s].hasChanges
              THEN setAlert(w1, s, NoOptions)
            ELSE IF w1.ses[s].isException
              THEN unsetAlert(w1, s)
            ELSE w1

\* One run of the keyup/change handler bound by init.
keyupHandler(w, s, element) ==
  IF Is(element, w.d.watchChangesIgnored) THEN w
  ELSE
    LET w1 == updateStatusNote(checkForException(w, s, <<element>>), s, "")
    IN  IF w1.threw THEN w1
        ELSE IF ~w1.ses[s].isException /\ w1.ses[s].hasChanges
          THEN setAlert(w1, s, NoOptions)
        ELSE IF w1.ses[s].isException
          THEN unsetAlert(w1, s)
        ELSE w1

\* init binds one click handler, delegated to the submits selector read now,
\* and one keyup/change handler; on an empty $scope .on() binds nothing.
init(w, s, override) ==
  LET options == IF HasOptions(w, s) THEN Extend(w.d, override)
                                     ELSE Extend(NoOptions, override)
      w1      == IF HasOptions(w, s) THEN [w EXCEPT !.d = options] ELSE w
  IN  IF w1.ses[s].scope = 0 THEN w1
      ELSE [w1 EXCEPT !.ses[s].bound = Append(@, options.watchChangesSubmits)]

\* new watchChanges(scope, options): scope is the number of elements the
\* region selector matched, dataOptions the region's data-attributes.
watchChanges(w, s, scope, options, dataOptions) ==
  LET w1 == [w EXCEPT !.ses[s] = [NotConstructed EXCEPT !.constructed = TRUE,
                                                        !.scope = scope]]
  IN  IF scope = 0 THEN w1
      ELSE
        LET merged == Extend(Extend(w1.d, options), dataOptions)
        IN  init([w1 EXCEPT !.d = merged,
                            !.ses[s].options      = "_defaults",
                            !.ses[s].statusNote   = merged.watchChangesStatusElement,
                            !.ses[s].savedChanges = merged.watchChangesSavedElement],
                 s, NoOptions)

\* Every keyup/change handler the watcher has bound runs, in binding order.
RECURSIVE RunKeyupHandlers(_, _, _, _)
RunKeyupHandlers(w, s, element, n) ==
  IF n = 0 \/ w.threw THEN w
  ELSE RunKeyupHandlers(keyupHandler(w, s, element), s, element, n - 1)

\* window.onbeforeunload runs: the callback, then the alert text is returned.
beforeUnload(w) ==
  LET onUnload == IF w.g.shared THEN w.d.onUnload ELSE w.g.onUnload
      alert    == IF w.g.shared THEN w.d.watchChangesAlert ELSE w.g.alert
  IN  IF onUnload = Undefined THEN Throw(w)
      ELSE [w EXCEPT !.tr  = Append(Append(@, <<"onUnload", onUnload>>),
                                    <<"return", alert>>),
                     !.ret = alert]

----------------------------------------------------------------------------
(* Inputs *)

\* options objects passed to new watchChanges(scope, options)
OptionArgs ==
  {NoOptions, [NoOptions EXCEPT !.watchChangesExceptions = "[data-submit]"]}

\* data-attributes found on a region
DataArgs ==
  {NoOptions, [NoOptions EXCEPT !.watchChangesExceptions = "[type=submit]"]}

\* options objects passed to init(options) and setAlert(options)
OverrideArgs ==
  {NoOptions,
   [NoOptions EXCEPT !.watchChangesSubmits = "[type=submit]",
                     !.onSetAlert          = "userOnSetAlert"]}

\* status arguments of updateStatusNote(status)
StatusArgs == {"", "Saving"}

\* the values the status-element and saved-element options can take
StatusSelectors ==
  ({SourceDefaults.watchChangesStatusElement}
     \cup {o.watchChangesStatusElement : o \in OptionArgs \cup DataArgs}) \ {Undefined}
SavedSelectors ==
  ({SourceDefaults.watchChangesSavedElement}
     \cup {o.watchChangesSavedElement : o \in OptionArgs \cup DataArgs}) \ {Undefined}

----------------------------------------------------------------------------
(* State machine *)

World ==
  [d |-> defaults, ses |-> sessions, g |-> onbeforeunload, sn |-> statusNote,
   sc |-> savedChanges, tr |-> <<>>, threw |-> FALSE, ret |-> ""]

\* what is recorded of a step: the operation, its receiver and arguments,
\* and the receiver's fields and the guard as they were before it
Step(op, s, element, state) ==
  [op |-> op, s |-> s, element |-> element, state |-> state,
   options |-> NoOptions, dataOptions |-> NoOptions,
   hasChanges  |-> IF s \in Sessions THEN sessions[s].hasChanges ELSE FALSE,
   isException |-> IF s \in Sessions THEN sessions[s].isException ELSE FALSE,
   armed       |-> Armed(onbeforeunload)]

Commit(w, step) ==
  /\ defaults'       = w.d
  /\ sessions'       = w.ses
  /\ onbeforeunload' = w.g
  /\ statusNote'     = w.sn
  /\ savedChanges'   = w.sc
  /\ trace'          = w.tr
  /\ threw'          = w.threw
  /\ prompt'         = w.ret
  /\ last'           = step

Init ==
  /\ defaults = SourceDefaults
  /\ sessions = [s \in Sessions |-> NotConstructed]
  /\ onbeforeunload = NoHandler
  /\ statusNote = [sel \in StatusSelectors |-> [text |-> "", hasChangesClass |-> FALSE]]
  /\ savedChanges = [sel \in SavedSelectors |-> [hidden |-> FALSE]]
  /\ trace = <<>>
  /\ threw = FALSE
  /\ prompt = ""
  /\ last = Step("load", "none", <<>>, FALSE)

\* the page constructs its watchers in the order A, B
Construct(s) ==
  /\ ~sessions[s].constructed
  /\ s = "B" => sessions["A"].constructed
  /\ \E scope \in {0, 1}, options \in OptionArgs, dataOptions \in DataArgs :
       Commit(watchChanges(World, s, scope, options, dataOptions),
              [Step("watchChanges", s, <<>>, FALSE) EXCEPT !.options = options,
                                                           !.dataOptions = dataOptions])

\* a keyup or change event from a field of the region
Keyup(s) ==
  /\ Len(sessions[s].bound) > 0
  /\ \E element \in Elements :
       Commit(RunKeyupHandlers(World, s, element, Len(sessions[s].bound)),
              Step("keyup", s, <<element>>, FALSE))

\* a click on an element a bound submits selector matches; the first handler
\* stops the propagation to the others
Click(s) ==
  \E element \in Elements :
    /\ \E i \in 1..Len(sessions[s].bound) : Is(element, sessions[s].bound[i])
    /\ Commit(clickHandler(World, s), Step("click", s, <<>>, FALSE))

UpdateHasChanges(s) ==
  /\ sessions[s].constructed
  /\ \E state \in BOOLEAN :
       Commit(updateHasChanges(World, s, state), Step("updateHasChanges", s, <<>>, state))

UpdateStatusNote(s) ==
  /\ sessions[s].constructed
  /\ \E status \in StatusArgs :
       Commit(updateStatusNote(World, s, status), Step("updateStatusNote", s, <<>>, FALSE))

SetAlert(s) ==
  /\ sessions[s].constructed
  /\ \E override \in OverrideArgs :
       Commit(setAlert(World, s, override),
              [Step("setAlert", s, <<>>, FALSE) EXCEPT !.options = override])

UnsetAlert(s) ==
  /\ sessions[s].constructed
  /\ Commit(unsetAlert(World, s), Step("unsetAlert", s, <<>>, FALSE))

CheckForException(s) ==
  /\ sessions[s].constructed
  /\ \E element \in {<<>>, <<{}>>, <<{"data-submit"}>>} :
       Commit(checkForException(World, s, element),
              Step("checkForException", s, element, FALSE))

\* init() called on a watcher whose constructor returned before calling it
InitAgain(s) ==
  /\ sessions[s].constructed
  /\ sessions[s].scope = 0
  /\ \E override \in OverrideArgs :
       Commit(init(World, s, override),
              [Step("init", s, <<>>, FALSE) EXCEPT !.options = override])

\* the user starts to leave the page while a handler is installed
BeforeUnload ==
  /\ Armed(onbeforeunload)
  /\ Commit(beforeUnload(World), Step("beforeunload", "none", <<>>, FALSE))

Next ==
  \/ \E s \in Sessions : Construct(s)
  \/ \E s \in Sessions : Keyup(s)
  \/ \E s \in Sessions : Click(s)
  \/ \E s \in Sessions : UpdateHasChanges(s)
  \/ \E s \in Sessions : UpdateStatusNote(s)
  \/ \E s \in Sessions : SetAlert(s)
  \/ \E s \in Sessions : UnsetAlert(s)
  \/ \E s \in Sessions : CheckForException(s)
  \/ \E s \in Sessions : InitAgain(s)
  \/ BeforeUnload

Spec == Init /\ [][Next]_vars

----------------------------------------------------------------------------
(* Vocabulary of the properties *)

\* the watcher's region matched: its constructor ran to the end
Live(s) == sessions[s].constructed /\ sessions[s].scope > 0

\* the watcher's constructor returned early: no options, no handlers
Inert(s) == sessions[s].constructed /\ sessions[s].scope = 0

GuardArmed == Armed(onbeforeunload)

\* the last step was a keyup/change event of a field the ignored selector
\* does not match (no handler changes the selectors)
Mutation ==
  last.op = "keyup" /\ ~Is(last.element[1], defaults.watchChangesIgnored)

\* ... and the field matches the exceptions selector
ExceptionMutation ==
  Mutation /\ Is(last.element[1], defaults.watchChangesExceptions)

\* the last step was updateHasChanges(state) on a watcher whose region matched
SetDirty(state) ==
  last.op = "updateHasChanges" /\ last.state = state /\ Live(last.s)

InTrace(kind) == \E i \in 1..Len(trace) : trace[i][1] = kind

\* what the watcher's presenter shows
DirtyShown(s) ==
  /\ statusNote[sessions[s].statusNote].hasChangesClass
  /\ savedChanges[sessions[s].savedChanges].hidden
CleanShown(s) ==
  /\ ~statusNote[sessions[s].statusNote].hasChangesClass
  /\ ~savedChanges[sessions[s].savedChanges].hidden

----------------------------------------------------------------------------
(* Properties *)

\* C1: when the handling of a keyup/change event of a non-ignored field has
\* completed, window.onbeforeunload is set if and only if the watcher has
\* hasChanges and not isException.  It holds with any number of watchers on
\* the page, so also with one.
C1_GuardAfterMutation ==
  Mutation =>
    (GuardArmed <=> sessions[last.s].hasChanges /\ ~sessions[last.s].isException)

\* the page has one watcher; it was dirty, an exception field changed, and
\* the guard is off although hasChanges is true
C1_Witness ==
  /\ ExceptionMutation
  /\ ~sessions["B"].constructed
  /\ sessions[last.s].hasChanges
  /\ sessions[last.s].isException
  /\ ~GuardArmed

\* C2 as claimed: after updateHasChanges(state) hasChanges = state and the
\* guard is armed if and only if hasChanges and not isException.
C2_Original ==
  \A state \in BOOLEAN :
    SetDirty(state) =>
      /\ sessions[last.s].hasChanges = state
      /\ GuardArmed <=> (sessions[last.s].hasChanges /\ ~sessions[last.s].isException)

\* C2 amended: after updateHasChanges(state) on a watcher whose region
\* matched, hasChanges = state and the guard is armed if and only if
\* hasChanges, whatever isException is.
C2_GuardAfterSetDirty ==
  \A state \in BOOLEAN :
    SetDirty(state) =>
      /\ sessions[last.s].hasChanges = state
      /\ GuardArmed <=> sessions[last.s].hasChanges

\* updateHasChanges(true) while isException is true: the guard is armed
C2_Witness ==
  /\ SetDirty(TRUE)
  /\ sessions[last.s].isException
  /\ ~last.armed
  /\ GuardArmed

\* C3: hasChanges of a watcher stays true over every step that is not an
\* updateHasChanges(false) on that watcher, and a keyup/change event of a
\* field that is neither ignored nor an exception leaves it true.
C3_HasChangesMonotonic ==
  [][ /\ \A s \in Sessions :
           sessions[s].hasChanges =>
             \/ sessions'[s].hasChanges
             \/ last'.op = "updateHasChanges" /\ last'.s = s /\ ~last'.state
      /\ (last'.op = "keyup"
            /\ ~Is(last'.element[1], defaults.watchChangesIgnored)
            /\ ~Is(last'.element[1], defaults.watchChangesExceptions))
           => sessions'[last'.s].hasChanges ]_vars

\* a dirty watcher got an event of an exception field and is still dirty
C3_Witness ==
  /\ ExceptionMutation
  /\ last.hasChanges
  /\ sessions[last.s].hasChanges

\* C4: after a click on an element the submits selector matches, the guard
\* is disarmed.
C4_ClickDisarms ==
  last.op = "click" => ~GuardArmed

\* the click came while the watcher was dirty, not excepted, and the guard armed
C4_Witness ==
  /\ last.op = "click"
  /\ last.armed /\ last.hasChanges /\ ~last.isException
  /\ ~GuardArmed

\* C5: a click on a submit element changes no watcher's hasChanges or
\* isException and no status note or saved message.
C5_ClickFrame ==
  [][ last'.op = "click" =>
        /\ sessions' = sessions
        /\ statusNote' = statusNote
        /\ savedChanges' = savedChanges ]_vars

\* after the click the watcher is still dirty and shown dirty, the guard off
C5_Witness ==
  /\ last.op = "click"
  /\ last.armed
  /\ sessions[last.s].hasChanges
  /\ DirtyShown(last.s)
  /\ ~GuardArmed

\* C6: a keyup/change event of a field the ignored selector matches changes
\* nothing and fires no callback.
C6_IgnoredInert ==
  [][ (last'.op = "keyup" /\ Is(last'.element[1], defaults.watchChangesIgnored)) =>
        /\ UNCHANGED <<defaults, sessions, onbeforeunload, statusNote, savedChanges>>
        /\ trace' = <<>> ]_vars

\* the ignored field also matches the exceptions selector, and the guard of
\* the dirty watcher is still armed
C6_Witness ==
  /\ last.op = "keyup"
  /\ Is(last.element[1], defaults.watchChangesIgnored)
  /\ Is(last.element[1], defaults.watchChangesExceptions)
  /\ sessions[last.s].hasChanges /\ ~sessions[last.s].isException
  /\ GuardArmed

\* C7 as claimed: when the guard is disarmed and an exception field changes,
\* the handler never installs the before-unload handler and onSetAlert is
\* not fired.
C7_Original ==
  (ExceptionMutation /\ ~last.armed) =>
    ~InTrace("install") /\ ~InTrace("onSetAlert")

\* C7 amended: when the guard is disarmed and an exception field changes,
\* the guard is disarmed when the handler returns.  With hasChanges false
\* the handler is never installed and onSetAlert is not fired; with
\* hasChanges true updateStatusNote fires onSetAlert and installs it, and the
\* exception branch then fires onUnsetAlert and clears it.
C7_ExceptionMutation ==
  (ExceptionMutation /\ ~last.armed) =>
    /\ ~GuardArmed
    /\ ~last.hasChanges => (~InTrace("install") /\ ~InTrace("onSetAlert"))
    /\ last.hasChanges =>
         /\ Len(trace) = 4
         /\ trace[1][1] = "onSetAlert"
         /\ trace[2] = <<"install", last.s>>
         /\ trace[3][1] = "onUnsetAlert"
         /\ trace[4] = <<"clear", last.s>>

\* the dirty case: installed inside the handler, gone when it returns
C7_Witness ==
  /\ ExceptionMutation
  /\ ~last.armed
  /\ last.hasChanges
  /\ InTrace("install")
  /\ ~GuardArmed

\* C8 as claimed: a method called on a watcher whose region matched nothing
\* raises no error and leaves the guard as it was.
C8_Original ==
  (last.s \in Sessions /\ last.op # "watchChanges") =>
    (Inert(last.s) => (~threw /\ GuardArmed = last.armed))

\* C9: updateHasChanges(false) on a watcher that has changes leaves
\* hasChanges false, the has-changes class removed, the saved message shown
\* and the guard disarmed.
C9_SetDirtyFalseCleans ==
  (SetDirty(FALSE) /\ last.hasChanges) =>
    /\ ~sessions[last.s].hasChanges
    /\ CleanShown(last.s)
    /\ ~GuardArmed

\* the watcher was dirty, not excepted, and the guard was armed
C9_Witness ==
  /\ SetDirty(FALSE)
  /\ last.hasChanges /\ ~last.isException /\ last.armed
  /\ CleanShown(last.s)
  /\ ~GuardArmed

\* C10: after a keyup/change event of a non-ignored field, isException is
\* whether that field matches the exceptions selector.
C10_IsExceptionRecomputed ==
  Mutation =>
    (sessions[last.s].isException
       <=> Is(last.element[1], defaults.watchChangesExceptions))

\* isException was true before the event of an ordinary field, and is false
C10_Witness ==
  /\ Mutation
  /\ last.isException /\ last.hasChanges
  /\ ~sessions[last.s].isException

\* C11: after a keyup/change event of a non-ignored field and after
\* updateHasChanges on a watcher whose region matched, the watcher's status
\* note carries the status text and has-changes and its saved message is
\* hidden if hasChanges is true, and has-changes is removed and the saved
\* message shown if it is false; isException and the guard play no part.
C11_StatusFollowsHasChanges ==
  (Mutation \/ SetDirty(TRUE) \/ SetDirty(FALSE)) =>
    IF sessions[last.s].hasChanges
      THEN /\ DirtyShown(last.s)
           /\ statusNote[sessions[last.s].statusNote].text = defaults.watchChangesStatus
      ELSE CleanShown(last.s)

\* an exception field of a dirty watcher changed: the guard is off and
\* isException true, and the dirty status is shown all the same
C11_Witness ==
  /\ ExceptionMutation
  /\ sessions[last.s].isException
  /\ ~GuardArmed
  /\ DirtyShown(last.s)
  /\ statusNote[sessions[last.s].statusNote].text = defaults.watchChangesStatus

\* C12 as claimed: the options a watcher is constructed with are the
\* region's data-attributes over the options argument over the defaults
\* table of the source.
C12_Original ==
  (last.op = "watchChanges" /\ Live(last.s)) =>
    defaults = Extend(Extend(SourceDefaults, last.options), last.dataOptions)

\* C13 as claimed: a step of one watcher that is not its own init or
\* setAlert leaves the options every other watcher reads as they were.
C13_Original ==
  [][ \A s \in Sessions :
        (Live(s) /\ last'.s # s) => defaults' = defaults ]_vars

\* C14: in every reachable state and for either value of hasChanges,
\* updateStatusNote run twice in a row on a watcher whose region matched
\* leaves the status notes, the saved messages and window.onbeforeunload as
\* one run leaves them.
C14_StatusUpdateIdempotent ==
  \A s \in Sessions, status \in StatusArgs :
    Live(s) =>
      LET once  == updateStatusNote(World, s, status)
          twice == updateStatusNote([once EXCEPT !.tr = <<>>], s, status)
      IN  /\ twice.sn = once.sn
          /\ twice.sc = once.sc
          /\ twice.g = once.g
          /\ Armed(once.g) <=> sessions[s].hasChanges

\* updateStatusNote has just run on a dirty watcher whose status was shown
\* and whose guard was armed already: the command was a repeat, only the
\* callback fired
C14_Witness ==
  /\ last.op = "updateStatusNote"
  /\ Live(last.s)
  /\ last.hasChanges /\ last.armed
  /\ DirtyShown(last.s)
  /\ GuardArmed
  /\ InTrace("onSetAlert") /\ ~InTrace("install")

\* the last step was a disarm of watcher b: a submit click, an event of an
\* exception field, or updateHasChanges(false)
DisarmBy(b) ==
  /\ last.s = b
  /\ last.op = "click" \/ ExceptionMutation \/ SetDirty(FALSE)

\* C15: with two watchers on the page, a disarm of one leaves
\* window.onbeforeunload null also when the other watcher has hasChanges and
\* not isException, so that watcher's warning is cancelled.
C15_DisarmCancelsOther ==
  \A a, b \in Sessions :
    (a # b /\ Live(a) /\ Live(b) /\ DisarmBy(b)
       /\ sessions[a].hasChanges /\ ~sessions[a].isException)
      => ~GuardArmed

\* the guard was armed, A is dirty and not excepted, B's submit was clicked:
\* the guard is off
C15_Witness ==
  /\ Live("A") /\ Live("B")
  /\ last.op = "click" /\ last.s = "B"
  /\ last.armed
  /\ ~last.hasChanges
  /\ sessions["A"].hasChanges /\ ~sessions["A"].isException
  /\ ~GuardArmed

\* C16 as claimed: setAlert called while a handler is installed leaves the
\* handler in place and has no other effect: no callback fires and the
\* options stay as they were.
C16_Original ==
  [][ (last'.op = "setAlert" /\ Live(last'.s) /\ Armed(onbeforeunload)) =>
        /\ onbeforeunload' = onbeforeunload
        /\ trace' = <<>>
        /\ defaults' = defaults ]_vars

\* C16 amended: an installed handler is never replaced: a step that does
\* not clear window.onbeforeunload leaves an installed handler as it is.
\* setAlert called while a handler is installed, on a watcher whose region
\* matched, keeps the handler, the watchers and the presenter, but it fires
\* onSetAlert and merges its override into the shared options.
C16_ArmWhenArmed ==
  [][ Armed(onbeforeunload) =>
        /\ (\A i \in 1..Len(trace') : trace'[i][1] # "clear")
             => onbeforeunload' = onbeforeunload
        /\ (last'.op = "setAlert" /\ Live(last'.s)) =>
             /\ onbeforeunload' = onbeforeunload
             /\ defaults' = Extend(defaults, last'.options)
             /\ trace' = << <<"onSetAlert", defaults'.onSetAlert>> >>
             /\ UNCHANGED <<sessions, statusNote, savedChanges>> ]_vars

\* a watcher asked to arm while the handler of the other watcher was
\* installed: that handler is still the one installed, onSetAlert has fired
C16_Witness ==
  /\ last.op = "setAlert"
  /\ Live(last.s)
  /\ last.armed
  /\ GuardArmed
  /\ onbeforeunload.by \in Sessions \ {last.s}
  /\ Len(trace) = 1 /\ trace[1][1] = "onSetAlert"

\* in the trace, every entry of kind effect comes right after one of kind callback
RightAfter(tr, effect, callback) ==
  \A i \in 1..Len(tr) :
    tr[i][1] = effect => (i > 1 /\ tr[i - 1][1] = callback)

\* C17: every write that installs the before-unload handler comes right
\* after an onSetAlert call and every write that clears it right after an
\* onUnsetAlert call; a step that takes the guard from disarmed to armed
\* holds such an install and one that takes it from armed to disarmed such
\* a clear; and the installed handler calls onUnload and then returns the
\* alert text.
C17_CallbackBeforeEffect ==
  [][ /\ RightAfter(trace', "install", "onSetAlert")
      /\ RightAfter(trace', "clear", "onUnsetAlert")
      /\ RightAfter(trace', "return", "onUnload")
      /\ (~Armed(onbeforeunload) /\ Armed(onbeforeunload'))
           => \E i \in 1..Len(trace') : trace'[i][1] = "install"
      /\ (Armed(onbeforeunload) /\ ~Armed(onbeforeunload'))
           => \E i \in 1..Len(trace') : trace'[i][1] = "clear"
      /\ (last'.op = "beforeunload" /\ ~threw')
           => /\ Len(trace') = 2
              /\ trace'[1][1] = "onUnload"
              /\ trace'[2] = <<"return", prompt'>> ]_vars

\* one handler run that installed the handler and cleared it again, each
\* write right after its callback
C17_Witness ==
  /\ Len(trace) = 4
  /\ trace[1][1] = "onSetAlert"   /\ trace[2][1] = "install"
  /\ trace[3][1] = "onUnsetAlert" /\ trace[4][1] = "clear"
  /\ ~last.armed
  /\ ~GuardArmed

\* the onSetAlert / onUnsetAlert calls of the last step, in order
AlertCallbacks ==
  LET calls == SelectSeq(trace, LAMBDA e : e[1] \in {"onSetAlert", "onUnsetAlert"})
  IN  [i \in 1..Len(calls) |-> calls[i][1]]

====
